---------------------------- MODULE Spec2Model ----------------------------
(***************************************************************************)
(* A model of cql-lsp: the rope-backed TextDocument of src/document.rs     *)
(* (TextDocument::new, TextDocument::apply_content_change) and the         *)
(* document store of src/main.rs (Backend::did_open, did_close,            *)
(* did_change, completion, all behind one tokio::sync::Mutex), with the    *)
(* parent walk find_statement_or_error of src/main.rs.                     *)
(*                                                                         *)
(* Text is a sequence of Unicode scalar values (code points).  ropey and   *)
(* tree-sitter are libraries: their operations are modelled by what their  *)
(* documentation says they return, at the place the source calls them.     *)
(* Parser::parse returns Option<Tree>; whether it yields a tree for a      *)
(* given call is an input of the call.                                     *)
(***************************************************************************)
EXTENDS Integers, Sequences, FiniteSets, TLC

VARIABLES
    unit,       \* which compilation unit the behaviour exercises
    walk,       \* a call of find_statement_or_error: the tree, node, result
    doc,        \* the TextDocument: [rope, tree]
    last,       \* the last TextDocument operation: its inputs, pre-state, result
    documents,  \* Backend.documents: uri -> DocumentState (a HashMap)
    lockq,      \* the tokio Mutex around documents: FIFO, its head holds the lock
    h           \* the request handlers (futures) in the order the requests
                \* were received: pc and locals of each

vars == <<unit, walk, doc, last, documents, lockq, h>>

---------------------------------------------------------------------------
(* Bounds *)

MaxLen == 3        \* longest rope, in chars
MaxText == 1       \* longest inserted text of a ranged change, in chars
MaxRequests == 3   \* requests the server receives in one behaviour
MaxNodes == 4      \* nodes of the largest syntax tree

---------------------------------------------------------------------------
(* Text: sequences of code points *)

\* 'a', LF, U+1F600 (4 bytes in UTF-8, a surrogate pair in UTF-16)
Chars == {97, 10, 128512}

TextsUpTo(n) == UNION {[1..k -> Chars] : k \in 0..n}

\* char::len_utf8
Utf8Len(c) == IF c < 128 THEN 1 ELSE IF c < 2048 THEN 2 ELSE IF c < 65536 THEN 3 ELSE 4

\* char::len_utf16
Utf16Len(c) == IF c < 65536 THEN 1 ELSE 2

RECURSIVE ByteLen(_)
\* str::len / Rope::len_bytes
ByteLen(s) == IF s = <<>> THEN 0 ELSE Utf8Len(Head(s)) + ByteLen(Tail(s))

RECURSIVE Utf16CuLen(_)
\* RopeSlice::len_utf16_cu
Utf16CuLen(s) == IF s = <<>> THEN 0 ELSE Utf16Len(Head(s)) + Utf16CuLen(Tail(s))

Prefix(s, k) == SubSeq(s, 1, k)

Suffix(s, k) == SubSeq(s, k + 1, Len(s))

\* line breaks among the first k chars
BreaksBefore(s, k) == Cardinality({i \in 1..k : s[i] = 10})

\* Rope::len_lines
LenLines(rope) == 1 + BreaksBefore(rope, Len(rope))

\* Rope::line_to_char, for l <= len_lines
LineToChar(rope, l) ==
    IF l = 0 THEN 0
    ELSE IF l >= LenLines(rope) THEN Len(rope)
    ELSE CHOOSE i \in 1..Len(rope) : rope[i] = 10 /\ BreaksBefore(rope, i) = l

\* Rope::get_line is Some exactly for l < len_lines
HasLine(rope, l) == l < LenLines(rope)

\* Rope::get_line: the line with its line break
GetLine(rope, l) == SubSeq(rope, LineToChar(rope, l) + 1, LineToChar(rope, l + 1))

\* Rope::char_to_byte, for c <= len_chars
CharToByte(rope, c) == ByteLen(Prefix(rope, c))

\* RopeSlice::char_to_utf16_cu, for c <= len_chars
CharToUtf16Cu(slice, c) == Utf16CuLen(Prefix(slice, c))

\* the char that holds byte b (one past the end for b = len_bytes)
ByteToChar(slice, b) ==
    CHOOSE k \in 0..Len(slice) :
        /\ ByteLen(Prefix(slice, k)) <= b
        /\ (k < Len(slice) => ByteLen(Prefix(slice, k + 1)) > b)

\* the char that holds UTF-16 code unit u (one past the end for u = len_utf16_cu)
Utf16CuToChar(slice, u) ==
    CHOOSE k \in 0..Len(slice) :
        /\ Utf16CuLen(Prefix(slice, k)) <= u
        /\ (k < Len(slice) => Utf16CuLen(Prefix(slice, k + 1)) > u)

\* RopeSlice::try_byte_to_char: Err only past the end; a byte inside a
\* multi-byte char gives the char it belongs to
TryByteToChar(slice, b) ==
    IF b <= ByteLen(slice) THEN [ok |-> TRUE, idx |-> ByteToChar(slice, b)]
    ELSE [ok |-> FALSE, idx |-> 0]

\* RopeSlice::try_utf16_cu_to_char: Err only past the end; the second unit of
\* a surrogate pair gives the char it belongs to
TryUtf16CuToChar(slice, u) ==
    IF u <= Utf16CuLen(slice) THEN [ok |-> TRUE, idx |-> Utf16CuToChar(slice, u)]
    ELSE [ok |-> FALSE, idx |-> 0]

\* Rope::byte_to_line, for b <= len_bytes
ByteToLine(rope, b) == BreaksBefore(rope, ByteToChar(rope, b))

\* Rope::remove(s..e), for s <= e <= len_chars
Remove(rope, s, e) == Prefix(rope, s) \o Suffix(rope, e)

\* Rope::insert(c, text), for c <= len_chars
Insert(rope, c, text) == Prefix(rope, c) \o text \o Suffix(rope, c)

---------------------------------------------------------------------------
(* tree-sitter: Tree, InputEdit, Parser::parse *)

NoTree == [some |-> FALSE, src |-> <<>>, len |-> 0]

\* Parser::parse(text, old_tree): Some(tree of text) or None.  A tree records
\* the text it is the parse of; len is its root node's end byte.
Parse(text, yields) ==
    IF yields THEN [some |-> TRUE, src |-> text, len |-> ByteLen(text)] ELSE NoTree

NoEdit ==
    [some |-> FALSE, start_byte |-> 0, old_end_byte |-> 0, new_end_byte |-> 0,
     start_position |-> [row |-> 0, column |-> 0],
     old_end_position |-> [row |-> 0, column |-> 0],
     new_end_position |-> [row |-> 0, column |-> 0]]

\* Tree::edit: the old tree keeps its nodes, its root's extent is shifted by
\* the edit; it is still the parse of the old text until it is re-parsed
TreeEdit(tree, edit) ==
    [tree EXCEPT !.len =
        IF tree.len >= edit.old_end_byte
        THEN edit.new_end_byte + (tree.len - edit.old_end_byte)
        ELSE IF tree.len > edit.start_byte THEN edit.new_end_byte ELSE tree.len]

---------------------------------------------------------------------------
(* src/document.rs: TextDocument *)

PositionEncodingKind == {"UTF8", "UTF16", "UTF32"}

Ok == [kind |-> "Ok", line |-> 0, character |-> 0]

PositionOutOfBounds(line, character) ==
    [kind |-> "Err", line |-> line, character |-> character]

\* a panic (assert!, expect, a ropey index panic): the call does not return
Panic == [kind |-> "Panic", line |-> 0, character |-> 0]

Outcome(rope, tree, res, edit) ==
    [rope |-> rope, tree |-> tree, res |-> res, edit |-> edit]

ComputeCharIdx(position_encoding, position, slice) ==
    CASE position_encoding = "UTF8" -> TryByteToChar(slice, position.character)
      [] position_encoding = "UTF16" -> TryUtf16CuToChar(slice, position.character)
      [] position_encoding = "UTF32" -> [ok |-> TRUE, idx |-> position.character]

NoOffsets(res) ==
    [res |-> res, start_doc_char |-> 0, end_doc_char |-> 0,
     start_doc_byte |-> 0, end_doc_byte |-> 0,
     start_line_byte |-> 0, end_line_byte |-> 0]

\* Step 5, one boundary: the column of the edit from the in-line char offset
\* (line_cu_idx is change_start_line_cu_idx or change_end_line_cu_idx)
LineByteIdx(position_encoding, line_cu_idx, slice, char_idx) ==
    CASE position_encoding = "UTF8" -> line_cu_idx
      [] position_encoding = "UTF16" -> CharToUtf16Cu(slice, char_idx)
      [] position_encoding = "UTF32" -> char_idx

\* Steps 4 and 5 of apply_content_change: document char and byte offsets and
\* the in-line columns of the edit, from the in-line char offsets.  The ropey
\* index operations panic past the end of what they index.
ResolveOffsets(rope, range, position_encoding, start_idx, end_idx, change_end_line) ==
    LET same == range.start.line = range.end.line
                  /\ range.start.character = range.end.character
        change_start_line_cu_idx == range.start.line
        change_end_line_cu_idx == range.start.line
        change_start_doc_char_idx == LineToChar(rope, range.start.line) + start_idx
        change_end_doc_char_idx ==
            IF same THEN change_start_doc_char_idx
            ELSE LineToChar(rope, range.end.line) + end_idx
    IN
    IF change_start_doc_char_idx > Len(rope) THEN NoOffsets(Panic)
    ELSE IF change_end_doc_char_idx > Len(rope) THEN NoOffsets(Panic)
    ELSE IF position_encoding = "UTF16" /\ start_idx > Len(change_end_line)
    THEN NoOffsets(Panic)
    ELSE
    LET change_start_line_byte_idx ==
            LineByteIdx(position_encoding, change_start_line_cu_idx,
                        change_end_line, start_idx)
        change_end_line_byte_idx ==
            IF same THEN change_start_line_byte_idx
            ELSE LineByteIdx(position_encoding, change_end_line_cu_idx,
                             change_end_line, end_idx)
    IN [res |-> Ok,
        start_doc_char |-> change_start_doc_char_idx,
        end_doc_char |-> change_end_doc_char_idx,
        start_doc_byte |-> CharToByte(rope, change_start_doc_char_idx),
        end_doc_byte |-> CharToByte(rope, change_end_doc_char_idx),
        start_line_byte |-> change_start_line_byte_idx,
        end_line_byte |-> change_end_line_byte_idx]

\* Steps 1 to 5: the order check and every line and position lookup
ResolveRange(rope, range, position_encoding) ==
    LET start == range.start
        end == range.end
        same_line == start.line = end.line
        same_character == start.character = end.character
    IN
    IF ~(start.line < end.line \/ (same_line /\ start.character <= end.character))
    THEN NoOffsets(Panic)
    ELSE IF ~HasLine(rope, start.line)
    THEN NoOffsets(PositionOutOfBounds(start.line, start.character))
    ELSE IF ~same_line /\ ~HasLine(rope, end.line)
    THEN NoOffsets(PositionOutOfBounds(end.line, end.character))
    ELSE
    LET change_start_line == GetLine(rope, start.line)
        change_end_line ==
            IF same_line THEN change_start_line ELSE GetLine(rope, end.line)
        s == ComputeCharIdx(position_encoding, start, change_start_line)
        e == IF same_line /\ same_character THEN s
             ELSE ComputeCharIdx(position_encoding, end, change_end_line)
    IN
    IF ~s.ok THEN NoOffsets(PositionOutOfBounds(start.line, start.character))
    ELSE IF ~e.ok THEN NoOffsets(PositionOutOfBounds(end.line, end.character))
    ELSE ResolveOffsets(rope, range, position_encoding, s.idx, e.idx, change_end_line)

\* (mutant) the text is inserted at the end offset of the removed range
MutateRopeAtEnd(rope, start_doc_char, end_doc_char, text) ==
    Insert(Remove(rope, start_doc_char, end_doc_char), end_doc_char, text)

\* self.rope.remove(start..end); self.rope.insert(start, text)
MutateRope(rope, start_doc_char, end_doc_char, text) ==
    Insert(Remove(rope, start_doc_char, end_doc_char), start_doc_char, text)

\* Step 7: the InputEdit, built after the rope was mutated
InputEdit(rope, range, o, text) ==
    [some |-> TRUE,
     start_byte |-> o.start_doc_byte,
     old_end_byte |-> o.end_doc_byte,
     new_end_byte |-> o.start_doc_byte + ByteLen(text),
     start_position |-> [row |-> range.start.line, column |-> o.start_line_byte],
     old_end_position |-> [row |-> range.end.line, column |-> o.end_line_byte],
     new_end_position |->
        [row |-> ByteToLine(rope, o.start_doc_byte + ByteLen(text)),
         column |-> o.start_doc_byte + ByteLen(text)]]

\* (mutant) the tree is edited and never re-parsed
UpdateTreeNoReparse(rope, tree, edit, yields) ==
    IF ~tree.some THEN Outcome(rope, tree, Ok, NoEdit)
    ELSE Outcome(rope, TreeEdit(tree, edit), Ok, edit)

\* if let Some(tree) = &mut self.tree: edit it and re-parse the whole rope
\* with it; expect() panics when the parser yields no tree, the edited old
\* tree then stays in place
UpdateTree(rope, tree, edit, yields) ==
    IF ~tree.some THEN Outcome(rope, tree, Ok, NoEdit)
    ELSE IF yields THEN Outcome(rope, Parse(rope, TRUE), Ok, edit)
    ELSE Outcome(rope, TreeEdit(tree, edit), Panic, edit)

\* (mutant) the text is inserted at the start position as soon as that is
\* resolved, ahead of the lookup of the end position
AbandonAfterInsert(d, range, text, position_encoding, res) ==
    LET s == IF HasLine(d.rope, range.start.line)
             THEN ComputeCharIdx(position_encoding, range.start,
                                 GetLine(d.rope, range.start.line))
             ELSE [ok |-> FALSE, idx |-> 0]
        at == LineToChar(d.rope, range.start.line) + s.idx
    IN IF res.kind = "Err" /\ s.ok /\ at <= Len(d.rope)
       THEN Outcome(Insert(d.rope, at, text), d.tree, res, NoEdit)
       ELSE Outcome(d.rope, d.tree, res, NoEdit)

\* A return of Err, or a panic, ahead of line 173: nothing was written
Abandon(d, range, text, position_encoding, res) ==
    Outcome(d.rope, d.tree, res, NoEdit)

\* Lines 173-214: Rope::remove panics on a range whose start is past its end
Commit(d, range, text, o, yields) ==
    IF o.start_doc_char > o.end_doc_char
    THEN Outcome(d.rope, d.tree, Panic, NoEdit)
    ELSE LET rope == MutateRope(d.rope, o.start_doc_char, o.end_doc_char, text)
         IN UpdateTree(rope, d.tree, InputEdit(rope, range, o, text), yields)

\* the Some(range) arm
ApplyRangedChange(d, range, text, position_encoding, yields) ==
    LET o == ResolveRange(d.rope, range, position_encoding) IN
    IF o.res.kind # "Ok" THEN Abandon(d, range, text, position_encoding, o.res)
    ELSE Commit(d, range, text, o, yields)

\* (mutant) the new text is put in front of the old rope
ApplyFullChangeKeepsRope(d, text, yields) ==
    Outcome(text \o d.rope, Parse(text \o d.rope, yields), Ok, NoEdit)

\* the None arm
ApplyFullChange(d, text, yields) ==
    Outcome(text, Parse(text, yields), Ok, NoEdit)

\* Whether a call reaches Parser::parse: the None arm always does, the
\* Some(range) arm only past the rope mutation and with a tree present
CallsParser(d, change, position_encoding) ==
    \/ ~change.range.some
    \/ /\ d.tree.some
       /\ LET o == ResolveRange(d.rope, change.range, position_encoding)
          IN o.res.kind = "Ok" /\ o.start_doc_char <= o.end_doc_char

\* TextDocument::apply_content_change
ApplyContentChange(d, change, position_encoding, yields) ==
    IF change.range.some
    THEN ApplyRangedChange(d, change.range, change.text, position_encoding, yields)
    ELSE ApplyFullChange(d, change.text, yields)

\* TextDocument::new: expect() panics when the parser yields no tree
New(text, yields) ==
    IF yields THEN Outcome(text, Parse(text, TRUE), Ok, NoEdit)
    ELSE Outcome(<<>>, NoTree, Panic, NoEdit)

---------------------------------------------------------------------------
(* tree-sitter: Node, as find_statement_or_error uses it *)

\* Node::kind of the nodes of a tree
Kinds == {"statement", "ERROR", "identifier"}

\* Option<Node>
NoNode == [some |-> FALSE, node |-> 0]

SomeNode(n) == [some |-> TRUE, node |-> n]

\* The trees of n nodes: node 1 is the root (Node::parent is None, here 0),
\* every other node has one parent among the nodes before it
Trees(n) ==
    {[parent |-> p, kind |-> k] :
        p \in {q \in [1..n -> 0..(n - 1)] :
                  \A i \in 1..n : q[i] < i /\ (q[i] = 0 <=> i = 1)},
        k \in [1..n -> Kinds]}

NoWalk ==
    [parent |-> <<>>, kind |-> <<>>, start |-> 0, node |-> 0, pc |-> "none",
     ret |-> NoNode]

---------------------------------------------------------------------------
(* Inputs of the TextDocument operations *)

Pos(line, character) == [line |-> line, character |-> character]

NoRange == [some |-> FALSE, start |-> Pos(0, 0), end |-> Pos(0, 0)]

Range(start, end) == [some |-> TRUE, start |-> start, end |-> end]

\* RopeSlice::len_bytes, len_utf16_cu, len_chars: the length of a line in
\* the units of a convention
UnitLen(position_encoding, slice) ==
    CASE position_encoding = "UTF8" -> ByteLen(slice)
      [] position_encoding = "UTF16" -> Utf16CuLen(slice)
      [] position_encoding = "UTF32" -> Len(slice)

\* Every line of the rope and one line past the last; on a line, every unit
\* offset up to one past the line's length in the convention.
Positions(rope, position_encoding) ==
    UNION {{Pos(l, u) : u \in 0..(IF HasLine(rope, l)
                                  THEN UnitLen(position_encoding, GetLine(rope, l)) + 1
                                  ELSE 0)}
           : l \in 0..LenLines(rope)}

RangedChanges(rope, position_encoding) ==
    {[range |-> Range(s, e), text |-> t] :
        s \in Positions(rope, position_encoding),
        e \in Positions(rope, position_encoding), t \in TextsUpTo(MaxText)}

FullChanges == {[range |-> NoRange, text |-> t] : t \in TextsUpTo(MaxLen)}

NoCall ==
    [op |-> "none", change |-> [range |-> NoRange, text |-> <<>>], enc |-> "UTF8",
     parse |-> "not called", pre |-> [rope |-> <<>>, tree |-> NoTree], res |-> Ok,
     edit |-> NoEdit]

\* The parser's answer is an input of the calls that reach Parser::parse
ParserAnswers(called) == IF called THEN BOOLEAN ELSE {TRUE}

\* What Parser::parse answered in a call: the call may end before it parses
ParseAnswer(called, yields) ==
    IF ~called THEN "not called" ELSE IF yields THEN "tree" ELSE "none"

---------------------------------------------------------------------------
(* The TextDocument as a state machine: an operation is called on the      *)
(* document and runs to its end (DocNew, DocChange); DocReturn is the      *)
(* caller going on after a call that returned.  A panic unwinds the        *)
(* caller: nothing in the source catches it.                               *)

InitDocument ==
    /\ unit = "document"
    /\ walk = NoWalk
    /\ \E text \in TextsUpTo(MaxLen) :
          doc = [rope |-> text, tree |-> Parse(text, TRUE)]
    /\ last = NoCall
    /\ documents = <<>>
    /\ lockq = <<>>
    /\ h = <<>>

DocNew ==
    /\ unit = "document"
    /\ last.op = "none"
    /\ \E text \in TextsUpTo(MaxLen), yields \in BOOLEAN :
          LET r == New(text, yields) IN
          /\ doc' = [rope |-> r.rope, tree |-> r.tree]
          /\ last' = [op |-> "new", change |-> [range |-> NoRange, text |-> text],
                      enc |-> "UTF8", parse |-> ParseAnswer(TRUE, yields), pre |-> doc,
                      res |-> r.res, edit |-> r.edit]
    /\ UNCHANGED <<unit, walk, documents, lockq, h>>

DocChange ==
    /\ unit = "document"
    /\ last.op = "none"
    /\ \E position_encoding \in PositionEncodingKind :
       \E change \in RangedChanges(doc.rope, position_encoding) \cup FullChanges :
       \E yields \in ParserAnswers(CallsParser(doc, change, position_encoding)) :
          LET r == ApplyContentChange(doc, change, position_encoding, yields) IN
          /\ Len(r.rope) <= MaxLen
          /\ doc' = [rope |-> r.rope, tree |-> r.tree]
          /\ last' = [op |-> "change", change |-> change, enc |-> position_encoding,
                      parse |-> ParseAnswer(CallsParser(doc, change, position_encoding), yields),
                      pre |-> doc, res |-> r.res, edit |-> r.edit]
    /\ UNCHANGED <<unit, walk, documents, lockq, h>>

DocReturn ==
    /\ unit = "document"
    /\ last.op # "none"
    /\ last.res.kind # "Panic"
    /\ last' = NoCall
    /\ UNCHANGED <<unit, walk, doc, documents, lockq, h>>

NextDocument == DocNew \/ DocChange \/ DocReturn

SpecDocument == InitDocument /\ [][NextDocument]_vars

---------------------------------------------------------------------------
(* src/main.rs: Backend.  Every handler is a future; an action is the      *)
(* code a handler runs from one .await to the next.  The handlers share    *)
(* Backend.documents behind a tokio::sync::Mutex, which grants the lock in *)
(* the order it was asked for: a handler joins lockq at lock() and goes on *)
(* when it is the head (on a free mutex, at once).  A panic in a handler   *)
(* unwinds the serving task: no handler runs after it.                     *)

Uris == {"a.cql", "b.cql"}

DocTexts == {<<97>>, <<97, 10>>}

\* content_changes entries: a full replacement, or an insertion at 0:0
Events ==
    {[range |-> NoRange, text |-> <<97, 10>>],
     [range |-> Range(Pos(0, 0), Pos(0, 0)), text |-> <<97>>]}

\* did_change applies a list of at most this many changes (len() > 1 returns)
SupportedChanges == 1

\* the lists did_change tells apart: empty, supported, longer
ChangeLists == UNION {[1..k -> Events] : k \in 0..(SupportedChanges + 1)}

NoState == [present |-> FALSE, text |-> <<>>, tree |-> NoTree]

\* a DocumentState as a handler sees it (the parser field holds no text)
StateOf(docs, uri) ==
    IF uri \in DOMAIN docs
    THEN [present |-> TRUE, text |-> docs[uri].text, tree |-> docs[uri].tree]
    ELSE NoState

Handler(kind, uri, text, changes, pc) ==
    [kind |-> kind, uri |-> uri, text |-> text, changes |-> changes, pc |-> pc,
     tree |-> NoTree, parse |-> "not called", node |-> FALSE, ret |-> "pending",
     pre |-> NoState, seen |-> NoState, post |-> NoState]

Crashed == \E i \in DOMAIN h : h[i].pc = "panicked"

Running == unit = "backend" /\ ~Crashed

\* the MutexGuard of handler i drops
Release(q, i) == SelectSeq(q, LAMBDA x : x # i)

\* (mutant) an entry that is present keeps its tree
MapInsertKeepsTree(docs, uri, state) ==
    [u \in DOMAIN docs \cup {uri} |->
        IF u # uri THEN docs[u]
        ELSE IF uri \in DOMAIN docs THEN [state EXCEPT !.tree = docs[uri].tree]
        ELSE state]

\* HashMap::insert
MapInsert(docs, uri, state) ==
    [u \in DOMAIN docs \cup {uri} |-> IF u = uri THEN state ELSE docs[u]]

\* (mutant) every entry is removed
MapClear(docs, uri) == [u \in {} |-> docs[u]]

\* HashMap::remove
MapRemove(docs, uri) == [u \in DOMAIN docs \ {uri} |-> docs[u]]

InitBackend ==
    /\ unit = "backend"
    /\ walk = NoWalk
    /\ documents = <<>>
    /\ lockq = <<>>
    /\ h = <<>>
    /\ doc = [rope |-> <<>>, tree |-> NoTree]
    /\ last = NoCall

\* did_open, lines 77-80: up to the log_message().await
DidOpen ==
    /\ Running
    /\ Len(h) < MaxRequests
    /\ \E uri \in Uris, text \in DocTexts :
          h' = Append(h, Handler("did_open", uri, text, <<>>, "open_log"))
    /\ UNCHANGED <<unit, walk, doc, last, documents, lockq>>

\* did_open, lines 81-95: parse, build the state, ask for the lock
OpenParse ==
    /\ Running
    /\ \E i \in DOMAIN h, yields \in BOOLEAN :
          /\ h[i].pc = "open_log"
          /\ h' = [h EXCEPT ![i].tree = Parse(h[i].text, yields),
                            ![i].parse = ParseAnswer(TRUE, yields),
                            ![i].pc = "open_lock"]
          /\ lockq' = Append(lockq, i)
    /\ UNCHANGED <<unit, walk, doc, last, documents>>

\* did_open, line 95: insert under the lock; the guard drops with the statement
OpenInsert ==
    /\ Running
    /\ \E i \in DOMAIN h :
          /\ h[i].pc = "open_lock"
          /\ lockq # <<>> /\ Head(lockq) = i
          /\ documents' = MapInsert(documents, h[i].uri,
                                    [text |-> h[i].text, tree |-> h[i].tree])
          /\ lockq' = Release(lockq, i)
          /\ h' = [h EXCEPT ![i].pc = "done", ![i].ret = "unit",
                            ![i].pre = StateOf(documents, h[i].uri),
                            ![i].post = StateOf(documents', h[i].uri)]
    /\ UNCHANGED <<unit, walk, doc, last>>

\* did_close, lines 99-101: ask for the lock
DidClose ==
    /\ Running
    /\ Len(h) < MaxRequests
    /\ \E uri \in Uris :
          /\ h' = Append(h, Handler("did_close", uri, <<>>, <<>>, "close_lock"))
          /\ lockq' = Append(lockq, Len(h) + 1)
    /\ UNCHANGED <<unit, walk, doc, last, documents>>

\* (mutant) the removed entry is unwrapped: a panic when there was none
CloseRemoveUnwrap ==
    /\ Running
    /\ \E i \in DOMAIN h :
          /\ h[i].pc = "close_lock"
          /\ lockq # <<>> /\ Head(lockq) = i
          /\ documents' = MapRemove(documents, h[i].uri)
          /\ lockq' = Release(lockq, i)
          /\ h' = [h EXCEPT ![i].pc = IF h[i].uri \in DOMAIN documents
                                      THEN "done" ELSE "panicked",
                            ![i].ret = "unit",
                            ![i].pre = StateOf(documents, h[i].uri),
                            ![i].post = StateOf(documents', h[i].uri)]
    /\ UNCHANGED <<unit, walk, doc, last>>

\* did_close, line 101: remove under the lock
CloseRemove ==
    /\ Running
    /\ \E i \in DOMAIN h :
          /\ h[i].pc = "close_lock"
          /\ lockq # <<>> /\ Head(lockq) = i
          /\ documents' = MapRemove(documents, h[i].uri)
          /\ lockq' = Release(lockq, i)
          /\ h' = [h EXCEPT ![i].pc = "done", ![i].ret = "unit",
                            ![i].pre = StateOf(documents, h[i].uri),
                            ![i].post = StateOf(documents', h[i].uri)]
    /\ UNCHANGED <<unit, walk, doc, last>>

\* did_change, lines 105-120: more than one change is logged and dropped;
\* content_changes[0] panics on an empty list; else ask for the lock
DidChange ==
    /\ Running
    /\ Len(h) < MaxRequests
    /\ \E uri \in Uris, changes \in ChangeLists :
          IF Len(changes) > 1
          THEN /\ h' = Append(h, Handler("did_change", uri, <<>>, changes,
                                         "change_log_unsupported"))
               /\ lockq' = lockq
          ELSE IF Len(changes) = 0
          THEN /\ h' = Append(h, Handler("did_change", uri, <<>>, changes, "panicked"))
               /\ lockq' = lockq
          ELSE /\ h' = Append(h, Handler("did_change", uri, changes[1].text, changes,
                                         "change_lock"))
               /\ lockq' = Append(lockq, Len(h) + 1)
    /\ UNCHANGED <<unit, walk, doc, last, documents>>

\* did_change, line 115: return after the log
ChangeUnsupportedReturn ==
    /\ Running
    /\ \E i \in DOMAIN h :
          /\ h[i].pc = "change_log_unsupported"
          /\ h' = [h EXCEPT ![i].pc = "done", ![i].ret = "unit",
                            ![i].pre = StateOf(documents, h[i].uri),
                            ![i].post = StateOf(documents, h[i].uri)]
    /\ UNCHANGED <<unit, walk, doc, last, documents, lockq>>

\* did_change, lines 120-133, with the lock: an unknown uri ends the handler;
\* else parse, and unwrap() the new tree for the log (a panic on None)
ChangeParse ==
    /\ Running
    /\ \E i \in DOMAIN h :
          /\ h[i].pc = "change_lock"
          /\ lockq # <<>> /\ Head(lockq) = i
          /\ IF h[i].uri \notin DOMAIN documents
             THEN /\ h' = [h EXCEPT ![i].pc = "done", ![i].ret = "unit"]
                  /\ lockq' = Release(lockq, i)
             ELSE \E yields \in BOOLEAN :
                  IF yields
                  THEN /\ h' = [h EXCEPT ![i].tree = Parse(h[i].text, TRUE),
                                         ![i].parse = "tree",
                                         ![i].pre = StateOf(documents, h[i].uri),
                                         ![i].pc = "change_log_tree"]
                       /\ lockq' = lockq
                  ELSE /\ h' = [h EXCEPT ![i].pre = StateOf(documents, h[i].uri),
                                         ![i].parse = "none",
                                         ![i].pc = "panicked"]
                       /\ lockq' = Release(lockq, i)
    /\ UNCHANGED <<unit, walk, doc, last, documents>>

\* (mutant) the guard is dropped ahead of the two assignments
ChangeWriteTreeUnlocked ==
    /\ Running
    /\ \E i \in DOMAIN h :
          /\ h[i].pc = "change_log_tree"
          /\ documents' = [documents EXCEPT ![h[i].uri].tree = h[i].tree]
          /\ lockq' = Release(lockq, i)
          /\ h' = [h EXCEPT ![i].pc = "change_write_text"]
    /\ UNCHANGED <<unit, walk, doc, last>>

\* did_change, line 135: doc.tree = new_tree
ChangeWriteTree ==
    /\ Running
    /\ \E i \in DOMAIN h :
          /\ h[i].pc = "change_log_tree"
          /\ documents' = [documents EXCEPT ![h[i].uri].tree = h[i].tree]
          /\ h' = [h EXCEPT ![i].pc = "change_write_text"]
    /\ UNCHANGED <<unit, walk, doc, last, lockq>>

\* did_change, lines 137-139: doc.text = content; the guard drops
ChangeWriteText ==
    /\ Running
    /\ \E i \in DOMAIN h :
          /\ h[i].pc = "change_write_text"
          /\ documents' = [documents EXCEPT ![h[i].uri].text = h[i].text]
          /\ lockq' = Release(lockq, i)
          /\ h' = [h EXCEPT ![i].pc = "done", ![i].ret = "unit",
                            ![i].post = StateOf(documents', h[i].uri)]
    /\ UNCHANGED <<unit, walk, doc, last>>

\* completion, lines 142-146: ask for the lock
Completion ==
    /\ Running
    /\ Len(h) < MaxRequests
    /\ \E uri \in Uris :
          /\ h' = Append(h, Handler("completion", uri, <<>>, <<>>, "completion_lock"))
          /\ lockq' = Append(lockq, Len(h) + 1)
    /\ UNCHANGED <<unit, walk, doc, last, documents>>

\* (mutant) the tree of the document is unwrapped: a panic when it has none
CompletionReadUnwrapsTree ==
    /\ Running
    /\ \E i \in DOMAIN h :
          /\ h[i].pc = "completion_lock"
          /\ lockq # <<>> /\ Head(lockq) = i
          /\ IF h[i].uri \notin DOMAIN documents
             THEN /\ h' = [h EXCEPT ![i].pc = "completion_log_early"]
                  /\ lockq' = lockq
             ELSE IF ~documents[h[i].uri].tree.some
             THEN /\ h' = [h EXCEPT ![i].pc = "panicked",
                                    ![i].seen = StateOf(documents, h[i].uri)]
                  /\ lockq' = Release(lockq, i)
             ELSE /\ h' = [h EXCEPT ![i].pc = "completion_log_position",
                                    ![i].seen = StateOf(documents, h[i].uri)]
                  /\ lockq' = lockq
    /\ UNCHANGED <<unit, walk, doc, last, documents>>

\* completion, lines 148-180, with the lock: an unknown uri is logged, a
\* document without a tree returns None; else the text and the tree are read,
\* and lsp_pos_to_pos().unwrap() and pos_to_offset().unwrap() panic on a
\* position the text does not hold
CompletionRead ==
    /\ Running
    /\ \E i \in DOMAIN h :
          /\ h[i].pc = "completion_lock"
          /\ lockq # <<>> /\ Head(lockq) = i
          /\ IF h[i].uri \notin DOMAIN documents
             THEN /\ h' = [h EXCEPT ![i].pc = "completion_log_early"]
                  /\ lockq' = lockq
             ELSE IF ~documents[h[i].uri].tree.some
             THEN /\ h' = [h EXCEPT ![i].pc = "done", ![i].ret = "None",
                                    ![i].seen = StateOf(documents, h[i].uri)]
                  /\ lockq' = Release(lockq, i)
             ELSE \E in_text \in BOOLEAN :
                  IF in_text
                  THEN /\ h' = [h EXCEPT ![i].pc = "completion_log_position",
                                         ![i].seen = StateOf(documents, h[i].uri)]
                       /\ lockq' = lockq
                  ELSE /\ h' = [h EXCEPT ![i].pc = "panicked",
                                         ![i].seen = StateOf(documents, h[i].uri)]
                       /\ lockq' = Release(lockq, i)
    /\ UNCHANGED <<unit, walk, doc, last, documents>>

\* completion, line 155: return Ok(None) after the log; the guard drops
CompletionEarlyReturn ==
    /\ Running
    /\ \E i \in DOMAIN h :
          /\ h[i].pc = "completion_log_early"
          /\ h' = [h EXCEPT ![i].pc = "done", ![i].ret = "None"]
          /\ lockq' = Release(lockq, i)
    /\ UNCHANGED <<unit, walk, doc, last, documents>>

\* completion, lines 182-195: descendant_for_byte_range; a missing node is
\* logged; then the root is logged
CompletionFindNode ==
    /\ Running
    /\ \E i \in DOMAIN h, found \in BOOLEAN :
          /\ h[i].pc = "completion_log_position"
          /\ h' = [h EXCEPT ![i].node = found,
                            ![i].pc = IF found THEN "completion_log_root"
                                      ELSE "completion_log_no_node"]
    /\ UNCHANGED <<unit, walk, doc, last, documents, lockq>>

\* completion, lines 185-195: after the log of the missing node
CompletionNoNode ==
    /\ Running
    /\ \E i \in DOMAIN h :
          /\ h[i].pc = "completion_log_no_node"
          /\ h' = [h EXCEPT ![i].pc = "completion_log_root"]
    /\ UNCHANGED <<unit, walk, doc, last, documents, lockq>>

\* completion, lines 197-199: node.unwrap() for the log panics on None
CompletionLogNode ==
    /\ Running
    /\ \E i \in DOMAIN h :
          /\ h[i].pc = "completion_log_root"
          /\ IF h[i].node
             THEN /\ h' = [h EXCEPT ![i].pc = "completion_log_node"]
                  /\ lockq' = lockq
             ELSE /\ h' = [h EXCEPT ![i].pc = "panicked"]
                  /\ lockq' = Release(lockq, i)
    /\ UNCHANGED <<unit, walk, doc, last, documents>>

\* completion, lines 201-242: return the completions; the guard drops
CompletionReturn ==
    /\ Running
    /\ \E i \in DOMAIN h :
          /\ h[i].pc = "completion_log_node"
          /\ h' = [h EXCEPT ![i].pc = "done", ![i].ret = "Some"]
          /\ lockq' = Release(lockq, i)
    /\ UNCHANGED <<unit, walk, doc, last, documents>>

NextBackend ==
    \/ DidOpen \/ OpenParse \/ OpenInsert
    \/ DidClose \/ CloseRemove
    \/ DidChange \/ ChangeUnsupportedReturn \/ ChangeParse
    \/ ChangeWriteTree \/ ChangeWriteText
    \/ Completion \/ CompletionRead \/ CompletionEarlyReturn
    \/ CompletionFindNode \/ CompletionNoNode \/ CompletionLogNode
    \/ CompletionReturn

SpecBackend == InitBackend /\ [][NextBackend]_vars

\* The runtime polls every handler that can go on: a log_message().await
\* resolves, the mutex grants the lock to the head of its queue.  The
\* requests themselves (DidOpen, DidClose, DidChange, Completion) come from
\* the client and need never come.
FairBackend ==
    /\ SpecBackend
    /\ WF_vars(OpenParse) /\ WF_vars(OpenInsert)
    /\ WF_vars(CloseRemove)
    /\ WF_vars(ChangeUnsupportedReturn) /\ WF_vars(ChangeParse)
    /\ WF_vars(ChangeWriteTree) /\ WF_vars(ChangeWriteText)
    /\ WF_vars(CompletionRead) /\ WF_vars(CompletionEarlyReturn)
    /\ WF_vars(CompletionFindNode) /\ WF_vars(CompletionNoNode)
    /\ WF_vars(CompletionLogNode) /\ WF_vars(CompletionReturn)

---------------------------------------------------------------------------
(* src/main.rs: find_statement_or_error, called on a node of a tree *)

InitWalk ==
    /\ unit = "walk"
    /\ \E n \in 1..MaxNodes : \E t \in Trees(n) : \E node \in 1..n :
          walk = [parent |-> t.parent, kind |-> t.kind, start |-> node,
                  node |-> node, pc |-> "loop", ret |-> NoNode]
    /\ doc = [rope |-> <<>>, tree |-> NoTree]
    /\ last = NoCall
    /\ documents = <<>>
    /\ lockq = <<>>
    /\ h = <<>>

\* (mutant) the parent is looked up ahead of the kind: the root is not tested
FindStepParentFirst ==
    /\ unit = "walk"
    /\ walk.pc = "loop"
    /\ walk' =
          IF walk.parent[walk.node] = 0
          THEN [walk EXCEPT !.pc = "returned", !.ret = NoNode]
          ELSE IF walk.kind[walk.node] \in {"statement", "ERROR"}
          THEN [walk EXCEPT !.pc = "returned", !.ret = SomeNode(walk.node)]
          ELSE [walk EXCEPT !.node = walk.parent[walk.node]]
    /\ UNCHANGED <<unit, doc, last, documents, lockq, h>>

\* find_statement_or_error, lines 33-44: one turn of the loop
FindStep ==
    /\ unit = "walk"
    /\ walk.pc = "loop"
    /\ walk' =
          IF walk.kind[walk.node] \in {"statement", "ERROR"}
          THEN [walk EXCEPT !.pc = "returned", !.ret = SomeNode(walk.node)]
          ELSE IF walk.parent[walk.node] # 0
          THEN [walk EXCEPT !.node = walk.parent[walk.node]]
          ELSE [walk EXCEPT !.pc = "returned", !.ret = NoNode]
    /\ UNCHANGED <<unit, doc, last, documents, lockq, h>>

NextWalk == FindStep

SpecWalk == InitWalk /\ [][NextWalk]_vars

\* the loop is straight-line code: it goes on while it has a step to take
FairWalk == SpecWalk /\ WF_vars(FindStep)

\* any unit, run on its own
Init == InitDocument \/ InitBackend \/ InitWalk

Next == NextDocument \/ NextBackend \/ NextWalk

Spec == Init /\ [][Next]_vars

---------------------------------------------------------------------------
(* What the specification says of positions, stated apart from the code *)

StartNotAfterEnd(range) ==
    \/ range.start.line < range.end.line
    \/ range.start.line = range.end.line
          /\ range.start.character <= range.end.character

\* the char offsets of a line whose unit offset is u: one when u lies on a
\* char boundary of the line (its end included), none otherwise
BoundaryChars(position_encoding, line, u) ==
    {c \in 0..Len(line) : UnitLen(position_encoding, Prefix(line, c)) = u}

ValidPosition(rope, position_encoding, pos) ==
    /\ HasLine(rope, pos.line)
    /\ BoundaryChars(position_encoding, GetLine(rope, pos.line), pos.character) # {}

\* a unit offset within the line that splits a char (a byte inside a
\* multi-byte char, the second unit of a surrogate pair)
SplitsChar(rope, position_encoding, pos) ==
    /\ HasLine(rope, pos.line)
    /\ pos.character < UnitLen(position_encoding, GetLine(rope, pos.line))
    /\ BoundaryChars(position_encoding, GetLine(rope, pos.line), pos.character) = {}

DocCharOffset(rope, position_encoding, pos) ==
    LineToChar(rope, pos.line)
        + (CHOOSE c \in BoundaryChars(position_encoding, GetLine(rope, pos.line),
                                      pos.character) : TRUE)

RangedCall == last.op = "change" /\ last.change.range.some

\* "SELECT * FROM t;\n" and "SELECT id FROM t;\n"
SelectStar == <<83, 69, 76, 69, 67, 84, 32, 42, 32, 70, 82, 79, 77, 32, 116, 59, 10>>

SelectId == <<83, 69, 76, 69, 67, 84, 32, 105, 100, 32, 70, 82, 79, 77, 32, 116, 59, 10>>

---------------------------------------------------------------------------
(* Claims on TextDocument *)

\* C1: a ranged change that returns PositionOutOfBounds leaves the rope and
\* the tree exactly as they were before the call.
C1_ErrorLeavesDocument ==
    (RangedCall /\ last.res.kind = "Err") => doc = last.pre

\* C1 witness: the end position fails after the start position resolved, on
\* a document with text and a tree, for a change with text to insert.
C1_Witness ==
    /\ RangedCall /\ last.res.kind = "Err"
    /\ last.res.line = last.change.range.end.line
    /\ last.res.character = last.change.range.end.character
    /\ ValidPosition(last.pre.rope, last.enc, last.change.range.start)
    /\ last.change.range.start # last.change.range.end
    /\ last.change.text # <<>>
    /\ last.pre.rope # <<>> /\ last.pre.tree.some

\* C2: a successful ranged change between valid positions, start not after
\* end, leaves the rope B[0..s) ++ text ++ B[e..), s and e the document char
\* offsets of start and end; and replacing 0:7-0:8 of "SELECT * FROM t;\n" by
\* "id" under the codepoint convention gives "SELECT id FROM t;\n".
C2_RangedChangeSplices ==
    /\ (/\ RangedCall /\ last.res.kind = "Ok"
        /\ StartNotAfterEnd(last.change.range)
        /\ ValidPosition(last.pre.rope, last.enc, last.change.range.start)
        /\ ValidPosition(last.pre.rope, last.enc, last.change.range.end))
       => LET s == DocCharOffset(last.pre.rope, last.enc, last.change.range.start)
              e == DocCharOffset(last.pre.rope, last.enc, last.change.range.end)
          IN doc.rope = Prefix(last.pre.rope, s) \o last.change.text
                            \o Suffix(last.pre.rope, e)
    /\ LET r == ApplyContentChange([rope |-> SelectStar, tree |-> Parse(SelectStar, TRUE)],
                                   [range |-> Range(Pos(0, 7), Pos(0, 8)),
                                    text |-> <<105, 100>>],
                                   "UTF32", TRUE)
       IN r.res.kind = "Ok" /\ r.rope = SelectId

\* C2 witness: a replacement across a line break under the 16-bit convention
\* that keeps text on both sides of the replaced range.
C2_Witness ==
    /\ RangedCall /\ last.res.kind = "Ok" /\ last.enc = "UTF16"
    /\ ValidPosition(last.pre.rope, last.enc, last.change.range.start)
    /\ ValidPosition(last.pre.rope, last.enc, last.change.range.end)
    /\ last.change.range.start.line < last.change.range.end.line
    /\ last.change.text # <<>>
    /\ 0 < DocCharOffset(last.pre.rope, last.enc, last.change.range.start)
    /\ DocCharOffset(last.pre.rope, last.enc, last.change.range.end) < Len(last.pre.rope)

\* C5: a ranged change (start not after end, the parser yielding a tree
\* where it is called) whose start or end names a line
\* the rope does not have, or a unit offset that is no boundary within its
\* line, returns PositionOutOfBounds of that position, under each convention.
C5_InvalidPositionIsOutOfBounds ==
    (/\ RangedCall /\ StartNotAfterEnd(last.change.range)
     /\ last.parse # "none"
     /\ \/ ~ValidPosition(last.pre.rope, last.enc, last.change.range.start)
        \/ ~ValidPosition(last.pre.rope, last.enc, last.change.range.end))
    => /\ last.res.kind = "Err"
       /\ \E pos \in {last.change.range.start, last.change.range.end} :
             /\ ~ValidPosition(last.pre.rope, last.enc, pos)
             /\ last.res.line = pos.line /\ last.res.character = pos.character

\* C6: a ranged change (start not after end, both lines in the rope, the
\* parser yielding a tree where it is called) fails
\* with PositionOutOfBounds when a unit offset addresses the second unit of a
\* surrogate pair (16-bit convention) or falls inside a multi-byte char (byte
\* convention).
C6_SplitCharIsOutOfBounds ==
    (/\ RangedCall /\ StartNotAfterEnd(last.change.range)
     /\ last.parse # "none"
     /\ last.enc \in {"UTF8", "UTF16"}
     /\ HasLine(last.pre.rope, last.change.range.start.line)
     /\ HasLine(last.pre.rope, last.change.range.end.line)
     /\ \/ SplitsChar(last.pre.rope, last.enc, last.change.range.start)
        \/ SplitsChar(last.pre.rope, last.enc, last.change.range.end))
    => last.res.kind = "Err"

\* C7: a ranged change whose start is after its end is reported to the
\* caller as rejected (the call returns its error) and leaves the rope and
\* the tree as they were.
C7_StartAfterEndIsRejected ==
    (RangedCall /\ ~StartNotAfterEnd(last.change.range))
    => last.res.kind = "Err" /\ doc = last.pre

---------------------------------------------------------------------------
(* Claims on both units *)

\* a did_change is between its two assignments to the document of uri
MidWrite(uri) ==
    \E i \in DOMAIN h : h[i].pc = "change_write_text" /\ h[i].uri = uri

C4_TreeIsParseOfBuffer ==
    /\ (last.res.kind # "Panic" /\ doc.tree.some)
       => doc.tree.src = doc.rope /\ doc.tree.len = ByteLen(doc.rope)
    /\ \A uri \in DOMAIN documents :
          (documents[uri].tree.some /\ ~MidWrite(uri))
          => /\ documents[uri].tree.src = documents[uri].text
             /\ documents[uri].tree.len = ByteLen(documents[uri].text)

\* C4 witness: a ranged change that altered the rope of a document with a
\* tree, and re-parsed it.
C4_Witness ==
    /\ RangedCall /\ last.res.kind = "Ok"
    /\ last.pre.tree.some /\ last.edit.some
    /\ ByteLen(doc.rope) # ByteLen(last.pre.rope)
    /\ doc.tree.some

---------------------------------------------------------------------------
(* Claims on the Backend *)

RECURSIVE FoldChanges(_, _)
\* the per-event rule of the specification over a list of changes: a ranged
\* event is an incremental edit, an unranged one a full replacement
FoldChanges(text, changes) ==
    IF changes = <<>> THEN text
    ELSE FoldChanges(
            ApplyContentChange([rope |-> text, tree |-> NoTree], Head(changes),
                               "UTF16", TRUE).rope,
            Tail(changes))

\* C8: a did_change on an open document applies every event of its list in
\* order: when it has run to its end the document's text is the fold of the
\* per-event rule over the list.
C8_ChangesAppliedInOrder ==
    \A i \in DOMAIN h :
        (h[i].kind = "did_change" /\ h[i].pc = "done" /\ h[i].pre.present)
        => h[i].post.text = FoldChanges(h[i].pre.text, h[i].changes)

\* C9: when the parser yields no tree for the text of a did_open or a
\* did_change, the handler does not abort, and ends with the document in the
\* no-tree state, its text equal to that text.
C9_NoTreeIsTolerated ==
    \A i \in DOMAIN h :
        h[i].parse = "none"
        => /\ h[i].pc # "panicked"
           /\ h[i].pc = "done"
                => h[i].post = [present |-> TRUE, text |-> h[i].text, tree |-> NoTree]

\* C10: the text and tree a handler reads under any interleaving are the
\* pair one completed did_open or did_change wrote: never the tree of one
\* change with the text of before it, or the reverse.
C10_ReadersSeeWholeWrites ==
    \A i \in DOMAIN h :
        h[i].seen.present
        => /\ h[i].seen.tree.some => h[i].seen.tree = Parse(h[i].seen.text, TRUE)
           /\ \E j \in DOMAIN h :
                 /\ h[j].kind \in {"did_open", "did_change"}
                 /\ h[j].pc = "done" /\ h[j].uri = h[i].uri
                 /\ h[j].post = h[i].seen

\* C10 witness: a completion has read the pair a did_change wrote over a
\* different text.
C10_Witness ==
    \E i \in DOMAIN h, j \in DOMAIN h :
        /\ h[j].kind = "did_change" /\ h[j].pc = "done"
        /\ h[j].pre.present /\ h[j].pre.text # h[j].post.text
        /\ h[i].kind = "completion" /\ h[i].uri = h[j].uri
        /\ h[i].seen.tree.some /\ h[i].seen = h[j].post

\* the requests other than i and j leave the document of uri alone
OnlyWriters(uri, i, j) ==
    \A k \in DOMAIN h \ {i, j} : h[k].uri = uri => h[k].kind = "completion"

\* C11: requests for one document take effect in request order: when a
\* did_open of a document with text T1 was issued before a did_change of it
\* that replaces the whole text by T2, and both handlers have run to their
\* end (no other request writing to the document), the store maps the
\* document to text T2.
C11_SameDocumentInRequestOrder ==
    \A i \in DOMAIN h, j \in DOMAIN h :
        (/\ i < j /\ h[i].uri = h[j].uri
         /\ h[i].kind = "did_open" /\ h[i].pc = "done"
         /\ h[j].kind = "did_change" /\ h[j].pc = "done"
         /\ Len(h[j].changes) = 1 /\ ~h[j].changes[1].range.some
         /\ OnlyWriters(h[i].uri, i, j))
        => /\ h[i].uri \in DOMAIN documents
           /\ documents[h[i].uri].text = h[j].changes[1].text

\* handler i took a step (or was issued) in this step
Stepped(i) == i \notin DOMAIN h \/ h'[i] # h[i]

\* C12: every step of a did_change, whatever its list of changes, taken
\* while its document is not in the store leaves the store as it is and does
\* not abort the handler.
C12_ChangeOfUnknownIsNoOp ==
    [][\A i \in DOMAIN h' :
          (/\ h'[i].kind = "did_change" /\ Stepped(i)
           /\ h'[i].uri \notin DOMAIN documents)
          => documents' = documents /\ h'[i].pc # "panicked"]_vars

\* C13: when a did_open has run to its end the store maps its document to
\* the state it built: the text of the request and the parser's result for
\* that text (a tree of it, or no tree), with nothing of an entry that was
\* there before.
C13_OpenStoresFreshState ==
    \A i \in DOMAIN h :
        (h[i].kind = "did_open" /\ h[i].pc = "done")
        => h[i].post = [present |-> TRUE, text |-> h[i].text,
                        tree |-> Parse(h[i].text, h[i].parse = "tree")]

\* C13 witness: a did_open over an entry with another text and a tree, the
\* parser yielding no tree for the new text.
C13_Witness ==
    \E i \in DOMAIN h :
        /\ h[i].kind = "did_open" /\ h[i].pc = "done"
        /\ h[i].pre.present /\ h[i].pre.tree.some
        /\ h[i].pre.text # h[i].text
        /\ h[i].parse = "none" /\ ~h[i].post.tree.some

\* C14: the step of a did_close under the lock ends the handler without an
\* error, removes the entry of its document when there is one and keeps every
\* other entry; when there is none (a second close included) the store is
\* left as it is.
C14_CloseRemovesOrNoOp ==
    [][\A i \in DOMAIN h :
          (h[i].kind = "did_close" /\ h[i].pc = "close_lock" /\ h'[i] # h[i])
          => /\ h'[i].pc = "done"
             /\ DOMAIN documents' = DOMAIN documents \ {h[i].uri}
             /\ \A u \in DOMAIN documents' : documents'[u] = documents[u]
             /\ h[i].uri \notin DOMAIN documents => documents' = documents]_vars

\* C14 witness: a document was opened and closed, and a second did_close of
\* it has run to its end on a store without it.
C14_Witness ==
    \E i \in DOMAIN h, j \in DOMAIN h :
        /\ i < j /\ h[i].uri = h[j].uri
        /\ h[i].kind = "did_close" /\ h[i].pc = "done" /\ h[i].pre.present
        /\ h[j].kind = "did_close" /\ h[j].pc = "done" /\ ~h[j].pre.present
        /\ h[j].uri \notin DOMAIN documents

---------------------------------------------------------------------------
(* Claims on the edit handed to the parser *)

\* a ranged change that returned Ok and built an InputEdit
EditBuilt == RangedCall /\ last.res.kind = "Ok" /\ last.edit.some

\* the in-line char offset compute_char_idx gave for a position of the call
LineCharIdx(pos) ==
    ComputeCharIdx(last.enc, pos, GetLine(last.pre.rope, pos.line)).idx

\* the char offset c of a position lies within its line, and the unit offset
\* the edit carries for it converts back to c on that line
RoundTrips(pos, column) ==
    LET line == GetLine(last.pre.rope, pos.line)
        back == ComputeCharIdx(last.enc, Pos(pos.line, column), line)
    IN LineCharIdx(pos) <= Len(line)
       => back.ok /\ back.idx = LineCharIdx(pos)

\* C15: under each convention, for the char offset c of the start and of the
\* end of a ranged change within their lines, the unit offset step 5 derives
\* from c converts back to c with compute_char_idx.
C15_CodecRoundTrip ==
    EditBuilt
    => /\ RoundTrips(last.change.range.start, last.edit.start_position.column)
       /\ RoundTrips(last.change.range.end, last.edit.old_end_position.column)

\* the Point of a boundary as the parser counts it: the row of the position
\* and the bytes of its line ahead of the boundary
BytePoint(pos) ==
    [row |-> pos.line,
     column |-> ByteLen(Prefix(GetLine(last.pre.rope, pos.line), LineCharIdx(pos)))]

\* C16: in the InputEdit of a ranged change between valid positions, under
\* each convention and for start and end on one line or on two,
\* start_position is (start line, byte offset of the start within its line)
\* and old_end_position is (end line, byte offset of the end within its line).
C16_EditPositionsAreLineBytes ==
    (/\ EditBuilt
     /\ ValidPosition(last.pre.rope, last.enc, last.change.range.start)
     /\ ValidPosition(last.pre.rope, last.enc, last.change.range.end))
    => /\ last.edit.start_position = BytePoint(last.change.range.start)
       /\ last.edit.old_end_position = BytePoint(last.change.range.end)

\* C17: in the InputEdit of a ranged change, new_end_byte is start_byte plus
\* the byte length of the inserted text, and new_end_position is the row of
\* the line of the rope after the change that holds that byte with the
\* byte's offset within that line.
C17_NewEndIsRequeried ==
    EditBuilt
    => LET b == last.edit.start_byte + ByteLen(last.change.text)
           row == ByteToLine(doc.rope, b)
       IN /\ last.edit.new_end_byte = b
          /\ last.edit.new_end_position =
                [row |-> row,
                 column |-> b - CharToByte(doc.rope, LineToChar(doc.rope, row))]

---------------------------------------------------------------------------
(* Claims on find_statement_or_error *)

RECURSIVE PathToRoot(_)
\* the nodes from n up to the root by parent links, n first
PathToRoot(n) ==
    IF walk.parent[n] = 0 THEN <<n>> ELSE <<n>> \o PathToRoot(walk.parent[n])

\* the places of the path from the starting node whose kind is looked for
Matches ==
    {i \in 1..Len(PathToRoot(walk.start)) :
        walk.kind[PathToRoot(walk.start)[i]] \in {"statement", "ERROR"}}

\* C18: on every tree and from every starting node find_statement_or_error
\* returns, and what it returns is the first node on the path from the
\* starting node (itself included) to the root whose kind is "statement" or
\* "ERROR", and None exactly when the path has no such node.
C18_FindsNearestOnPath ==
    /\ <>(walk.pc = "returned")
    /\ [](walk.pc = "returned"
          => IF Matches = {} THEN walk.ret = NoNode
             ELSE walk.ret = SomeNode(PathToRoot(walk.start)[
                     CHOOSE i \in Matches : \A j \in Matches : i <= j]))

\* C18 witness: the walk passed the starting node and returned an ancestor
\* that is not the root, a further node of the kinds above it.
C18_Witness ==
    /\ walk.pc = "returned" /\ walk.ret.some
    /\ walk.ret.node # walk.start /\ walk.parent[walk.ret.node] # 0
    /\ walk.kind[walk.parent[walk.ret.node]] \in {"statement", "ERROR"}

---------------------------------------------------------------------------
(* Further claims on the Backend *)

\* C19: no step of a completion changes the store; the step under the lock
\* of a completion whose document is not in the store, or is there without a
\* tree, does not abort; and such a completion ends returning None.
C19_CompletionToleratesAbsence ==
    [][\A i \in DOMAIN h' :
          (h'[i].kind = "completion" /\ Stepped(i))
          => /\ documents' = documents
             /\ (/\ i \in DOMAIN h /\ h[i].pc = "completion_lock"
                 /\ (h[i].uri \in DOMAIN documents
                        => ~documents[h[i].uri].tree.some))
                => /\ h'[i].pc \in {"completion_log_early", "done"}
                   /\ h'[i].pc = "done" => h'[i].ret = "None"
             /\ (i \in DOMAIN h /\ h[i].pc = "completion_log_early")
                => h'[i].pc = "done" /\ h'[i].ret = "None"]_vars

\* C19 witness: one completion returned None for a document stored without a
\* tree, another returned None for a document that is not in the store.
C19_Witness ==
    \E i \in DOMAIN h, j \in DOMAIN h :
        /\ h[i].kind = "completion" /\ h[i].pc = "done" /\ h[i].ret = "None"
        /\ h[i].seen.present /\ ~h[i].seen.tree.some
        /\ h[j].kind = "completion" /\ h[j].pc = "done" /\ h[j].ret = "None"
        /\ ~h[j].seen.present /\ h[j].uri \notin DOMAIN documents

\* C20: under every interleaving, a step that changes the entry of a
\* document (its presence, text or tree) is a step of a did_open, did_close
\* or did_change of that document: the requests on one document leave the
\* entries of all others as they are.
C20_OtherDocumentsUntouched ==
    [][\A uri \in Uris :
          StateOf(documents', uri) # StateOf(documents, uri)
          => \E i \in DOMAIN h' :
                /\ Stepped(i) /\ h'[i].uri = uri
                /\ h'[i].kind \in {"did_open", "did_close", "did_change"}]_vars

\* C20 witness: a did_change has replaced the text of one document while
\* another document is in the store with its tree.
C20_Witness ==
    \E i \in DOMAIN h, uri \in DOMAIN documents :
        /\ h[i].kind = "did_change" /\ h[i].pc = "done" /\ h[i].uri # uri
        /\ h[i].pre.present /\ h[i].post.text # h[i].pre.text
        /\ documents[uri].tree.some

\* handler i has asked for the lock of the store and has not got it yet
WaitsForLock(i) ==
    /\ i \in DOMAIN h
    /\ h[i].pc \in {"open_lock", "close_lock", "change_lock", "completion_lock"}

\* C21: under fair scheduling every did_open, did_close, did_change and
\* completion that waits for the lock of the store gets it and runs to its
\* end: no handler leaves the store locked for good.
C21_WaitersComplete ==
    \A i \in 1..MaxRequests :
        WaitsForLock(i) ~> (i \in DOMAIN h /\ h[i].pc = "done")

===========================================================================
